---- MODULE Spec2Model ----
(***************************************************************************)
(* Model of hyperlane-base/src/db/mod.rs: the DB handle (an Arc around one *)
(* opened RocksDB instance), DB::from_path, the prefixed raw store and     *)
(* retrieve, the typed store_encodable / retrieve_decodable pair and       *)
(* prefix_iterator.                                                        *)
(*                                                                         *)
(* The storage engine and the filesystem are the program's environment.    *)
(* They are modelled by what the calls of mod.rs rely on: put overwrites,  *)
(* get returns the current bytes or nothing, an opened engine holds the    *)
(* lock on its directory, and iteration follows the bytewise order of the  *)
(* keys.  The engine is trusted: put and get do not fail with I/O errors.  *)
(***************************************************************************)
EXTENDS Integers, Sequences, FiniteSets, TLC

\* ------------------------------------------------------------------ bounds
\* Number of DB handles (clones included) that may be alive at once.
MaxHandles == 2
\* Operations per behaviour, for each specification.
MaxOps == 5
MaxKVOps == 4
MaxScanOps == 5
MaxSharedOps == 6

VARIABLES
    dirs,     \* filesystem: the set of canonical paths that are directories
    disk,     \* filesystem: canonical path -> persisted key/value map of the store there
    rocks,    \* opened engine instances: engine id -> [path, data]
    arc,      \* live DB handles: handle id -> engine id (the Arc<Rocks> pointer)
    events,   \* tracing info! events emitted so far
    hist      \* calls made so far, each with its arguments and its result

vars == <<dirs, disk, rocks, arc, events, hist>>

\* ------------------------------------------------------------ basic values
None == <<>>
Some(x) == <<x>>

EmptyMap == [k \in {} |-> <<>>]

Last(s) == s[Len(s)]

\* a is a (not necessarily proper) byte-prefix of b
IsPrefix(a, b) == Len(a) <= Len(b) /\ SubSeq(b, 1, Len(a)) = a

\* Bytewise lexicographic order, the engine's default comparator.
LexLess(a, b) ==
    \E i \in 1..(Len(b)) :
        /\ \A j \in 1..(i - 1) : j <= Len(a) /\ a[j] = b[j]
        /\ (i > Len(a) \/ a[i] < b[i])

HandleIds == 1..MaxHandles
EngineIds == 1..MaxHandles

MinOf(S) == CHOOSE x \in S : \A y \in S : x <= y

\* ------------------------------------------------------------- filesystem
Cwd == <<"/", "work">>
InitDirs == {<<"/">>, <<"/", "data">>, Cwd}

\* A path component that is not valid UTF-8, and what to_string_lossy makes of it.
BadName == "db\\xFF"
ReplName == "db\\uFFFD"

\* Path::to_string_lossy: invalid sequences become U+FFFD.
to_string_lossy(p) == [i \in DOMAIN p |-> IF p[i] = BadName THEN ReplName ELSE p[i]]

\* Path::parent: None for the root and for the empty path, and the empty
\* path for a bare file name.
parent(p) ==
    IF p = <<>> \/ p = <<"/">> THEN None ELSE Some(SubSeq(p, 1, Len(p) - 1))

\* Path::file_name: None when the path ends in the root, "." or "..".
file_name(p) ==
    IF p = <<>> \/ Last(p) \in {"/", ".", ".."} THEN None ELSE Some(Last(p))

\* The absolute form of a path (no symbolic links in the modelled filesystem).
Absolute(q) ==
    IF q # <<>> /\ q[1] = "/" THEN q
    ELSE IF q # <<>> /\ q[1] = "." THEN Cwd \o SubSeq(q, 2, Len(q))
    ELSE Cwd \o q

\* Path::canonicalize: fails on the empty path and on a path that does not exist.
canonicalize(q, d) ==
    IF q = <<>> \/ Absolute(q) \notin d
    THEN [tag |-> "Err", kind |-> "NotFound"]
    ELSE [tag |-> "Ok", path |-> Absolute(q)]

\* The path block of from_path: canonicalize the parent, push the file name.
resolve_path(db_path, d) ==
    LET par == parent(db_path)
        c == canonicalize(IF par = None THEN <<".">> ELSE par[1], d)
        fn == file_name(db_path)
    IN  IF c.tag = "Err"
        THEN [tag |-> "InvalidDbPath", cause |-> c.kind, path |-> to_string_lossy(db_path)]
        ELSE [tag |-> "Ok", path |-> IF fn = None THEN c.path ELSE Append(c.path, fn[1])]

\* The info! event of from_path, emitted once the path is resolved.
open_events_always(ev, db_path, r, d) ==
    Append(ev, [msg |-> "Creating db", path |-> to_string_lossy(db_path)])

open_events(ev, db_path, r, d) ==
    IF r.tag # "Ok" THEN ev
    ELSE Append(ev, [msg |-> IF r.path \in d THEN "Opening existing db" ELSE "Creating db",
                     path |-> to_string_lossy(r.path)])

\* opts.create_if_missing(true)
create_if_missing == TRUE

\* The engine holds a lock on the directory of every opened instance.
Locked(path) == \E e \in DOMAIN rocks : rocks[e].path = path

\* ------------------------------------------------------------------ codec
\* Two value types of the Encode/Decode traits: one and two bytes wide, big endian.
Types == {"u8", "u16"}
ValuesOf(ty) == IF ty = "u8" THEN {0, 1} ELSE {258}

Width(ty) == IF ty = "u8" THEN 1 ELSE 2

to_vec(ty, v) ==
    IF ty = "u8" THEN <<v % 256>> ELSE <<(v \div 256) % 256, v % 256>>

read_from(ty, bytes) ==
    IF Len(bytes) < Width(ty)
    THEN [tag |-> "Err"]
    ELSE [tag |-> "Ok",
          value |-> IF ty = "u8" THEN bytes[1] ELSE bytes[1] * 256 + bytes[2]]

\* --------------------------------------------------------- raw operations
\* self.0.put(key, value): unconditional overwrite.
_store_keep_first(data, key, value) ==
    IF key \in DOMAIN data THEN data
    ELSE [k \in DOMAIN data \cup {key} |-> IF k = key THEN value ELSE data[k]]

_store(data, key, value) ==
    [k \in DOMAIN data \cup {key} |-> IF k = key THEN value ELSE data[k]]

\* self.0.get(key)
_retrieve(data, key) ==
    IF key \in DOMAIN data THEN Some(data[key]) ELSE None

\* The physical key: the prefix bytes, then the key bytes.
buf_key_only(prefix, key) == key

buf(prefix, key) == prefix \o key

prefix_store_swapped(data, prefix, key, value) == _store(data, buf(key, prefix), value)

prefix_store(data, prefix, key, value) == _store(data, buf(prefix, key), value)

prefix_retrieve_key_only(data, prefix, key) == _retrieve(data, key)

prefix_retrieve(data, prefix, key) == _retrieve(data, buf(prefix, key))

store_encodable(data, prefix, key, ty, v) ==
    prefix_store(data, prefix, key, to_vec(ty, v))

\* retrieve_decodable swallowing the decoder's error.
retrieve_decodable_ok(data, prefix, key, ty) ==
    LET got == prefix_retrieve(data, prefix, key)
        dec == read_from(ty, got[1])
    IN  IF got = None THEN [result |-> [tag |-> "Ok", value |-> None], ndecode |-> 0]
        ELSE IF dec.tag = "Err" THEN [result |-> [tag |-> "Ok", value |-> None], ndecode |-> 1]
        ELSE [result |-> [tag |-> "Ok", value |-> Some(dec.value)], ndecode |-> 1]

\* prefix_retrieve(..)?.map(read_from).transpose()?; ndecode counts the
\* calls of the decoder.
retrieve_decodable(data, prefix, key, ty) ==
    LET got == prefix_retrieve(data, prefix, key)
        dec == read_from(ty, got[1])
    IN  IF got = None THEN [result |-> [tag |-> "Ok", value |-> None], ndecode |-> 0]
        ELSE IF dec.tag = "Err" THEN [result |-> [tag |-> "HyperlaneError"], ndecode |-> 1]
        ELSE [result |-> [tag |-> "Ok", value |-> Some(dec.value)], ndecode |-> 1]

\* The keys of S in ascending bytewise order.
RECURSIVE Ascending(_)
Ascending(S) ==
    IF S = {} THEN <<>>
    ELSE LET m == CHOOSE x \in S : \A y \in S : x = y \/ LexLess(x, y)
         IN  <<m>> \o Ascending(S \ {m})

Reverse(s) == [i \in 1..Len(s) |-> s[Len(s) + 1 - i]]

prefix_iterator_reverse(data, prefix) ==
    LET keys == Reverse(Ascending({k \in DOMAIN data : ~LexLess(k, prefix)}))
    IN  [i \in 1..Len(keys) |-> <<keys[i], data[keys[i]]>>]

\* self.0.prefix_iterator(prefix) on an engine opened with Options::default():
\* no prefix extractor is set, so the iterator seeks to the first key that is
\* not below `prefix` and runs forward to the end of the keyspace.
prefix_iterator(data, prefix) ==
    LET keys == Ascending({k \in DOMAIN data : ~LexLess(k, prefix)})
    IN  [i \in 1..Len(keys) |-> <<keys[i], data[keys[i]]>>]

\* ------------------------------------------------------------------ state
Init ==
    /\ dirs = InitDirs
    /\ disk = EmptyMap
    /\ rocks = EmptyMap
    /\ arc = EmptyMap
    /\ events = <<>>
    /\ hist = <<>>

Remove(f, x) == [y \in DOMAIN f \ {x} |-> f[y]]

\* The engine data a handle reaches.
DataOf(h) == rocks[arc[h]].data
PathOf(h) == rocks[arc[h]].path

\* DB::from_path(db_path)
FromPath(db_path) ==
    /\ DOMAIN arc # HandleIds
    /\ LET r == resolve_path(db_path, dirs)
           h == MinOf(HandleIds \ DOMAIN arc)
           e == MinOf(EngineIds \ DOMAIN rocks)
           call == [op |-> "from_path", db_path |-> db_path]
       IN  /\ events' = open_events(events, db_path, r, dirs)
           /\ IF r.tag # "Ok"
              THEN /\ hist' = Append(hist, call @@ [result |-> r])
                   /\ UNCHANGED <<dirs, disk, rocks, arc>>
              ELSE IF Locked(r.path) \/ (r.path \notin DOMAIN disk /\ ~create_if_missing)
              THEN /\ hist' = Append(hist, call @@
                          [result |-> [tag |-> "OpeningError", path |-> db_path,
                                       canonicalized |-> r.path]])
                   /\ UNCHANGED <<dirs, disk, rocks, arc>>
              ELSE /\ dirs' = dirs \cup {r.path}
                   /\ disk' = IF r.path \in DOMAIN disk THEN disk
                              ELSE disk @@ (r.path :> EmptyMap)
                   /\ rocks' = rocks @@ (e :> [path |-> r.path, data |-> disk'[r.path]])
                   /\ arc' = arc @@ (h :> e)
                   /\ hist' = Append(hist, call @@
                          [result |-> [tag |-> "Ok", handle |-> h, canonicalized |-> r.path]])

\* A clone that copies the engine state instead of sharing it.
CloneCopy(h) ==
    /\ h \in DOMAIN arc
    /\ DOMAIN arc # HandleIds
    /\ LET h2 == MinOf(HandleIds \ DOMAIN arc)
           e2 == MinOf(EngineIds \ DOMAIN rocks)
       IN  /\ rocks' = rocks @@ (e2 :> rocks[arc[h]])
           /\ arc' = arc @@ (h2 :> e2)
           /\ hist' = Append(hist, [op |-> "clone", handle |-> h, result |-> h2])
    /\ UNCHANGED <<dirs, disk, events>>

\* DB::clone: another reference to the same engine.
Clone(h) ==
    /\ h \in DOMAIN arc
    /\ DOMAIN arc # HandleIds
    /\ LET h2 == MinOf(HandleIds \ DOMAIN arc)
       IN  /\ arc' = arc @@ (h2 :> arc[h])
           /\ hist' = Append(hist, [op |-> "clone", handle |-> h, result |-> h2])
    /\ UNCHANGED <<dirs, disk, rocks, events>>

\* Dropping a handle; the engine goes with the last reference to it.
Drop(h) ==
    /\ h \in DOMAIN arc
    /\ arc' = Remove(arc, h)
    /\ rocks' = IF \E g \in DOMAIN arc' : arc'[g] = arc[h] THEN rocks
                ELSE Remove(rocks, arc[h])
    /\ hist' = Append(hist, [op |-> "drop", handle |-> h])
    /\ UNCHANGED <<dirs, disk, events>>

\* db.store_encodable(prefix, key, &v) with v of type ty
StoreEncodable(h, prefix, key, ty, v) ==
    /\ h \in DOMAIN arc
    /\ LET e == arc[h]
           data == store_encodable(rocks[e].data, prefix, key, ty, v)
       IN  /\ rocks' = [rocks EXCEPT ![e].data = data]
           /\ disk' = [disk EXCEPT ![rocks[e].path] = data]
           /\ hist' = Append(hist,
                  [op |-> "store_encodable", handle |-> h, db |-> rocks[e].path,
                   prefix |-> prefix, key |-> key, ty |-> ty, value |-> v,
                   result |-> [tag |-> "Ok"]])
    /\ UNCHANGED <<dirs, arc, events>>

\* db.retrieve_decodable::<ty>(prefix, key)
RetrieveDecodable(h, prefix, key, ty) ==
    /\ h \in DOMAIN arc
    /\ LET r == retrieve_decodable(DataOf(h), prefix, key, ty)
       IN  hist' = Append(hist,
                  [op |-> "retrieve_decodable", handle |-> h, db |-> PathOf(h),
                   prefix |-> prefix, key |-> key, ty |-> ty,
                   raw |-> prefix_retrieve(DataOf(h), prefix, key),
                   ndecode |-> r.ndecode, result |-> r.result])
    /\ UNCHANGED <<dirs, disk, rocks, arc, events>>

\* db.prefix_iterator(prefix), read to its end; the engine iterates over the
\* state as of the creation of the iterator.
PrefixIterator(h, prefix) ==
    /\ h \in DOMAIN arc
    /\ hist' = Append(hist,
           [op |-> "prefix_iterator", handle |-> h, db |-> PathOf(h),
            prefix |-> prefix, items |-> prefix_iterator(DataOf(h), prefix)])
    /\ UNCHANGED <<dirs, disk, rocks, arc, events>>

\* ----------------------------------------------------------------- inputs
DataDb == <<"/", "data", "db">>
DbPaths ==
    { DataDb,                       \* /data/db
      <<".", "db">>,                \* ./db
      <<"db">>,                     \* db
      <<"/", "nodir", "db">>,       \* /nodir/db, no directory /nodir
      <<"/", "nodir", BadName>>,    \* the same with a name that is not UTF-8
      <<"/">> }

Prefixes == {<<1>>, <<1, 2>>, <<2>>}
Keys == {<<1>>, <<2, 1>>}

\* --------------------------------------------------------- specifications
\* Every specification stops after a bounded number of calls.
Within(n) == Len(hist) < n

\* Lifecycle: opening, dropping and reopening stores.
Next ==
    \/ \E p \in DbPaths : Within(MaxOps) /\ FromPath(p)
    \/ \E h \in HandleIds : Within(MaxOps) /\ Drop(h)
    \/ \E h \in HandleIds : Within(MaxOps) /\ StoreEncodable(h, <<1>>, <<1>>, "u8", 1)
    \/ \E h \in HandleIds : Within(MaxOps) /\ RetrieveDecodable(h, <<1>>, <<1>>, "u8")

Spec == Init /\ [][Next]_vars

\* Typed store and retrieve on one store.
NextKV ==
    \/ Within(MaxKVOps) /\ FromPath(DataDb)
    \/ \E p \in Prefixes, k \in Keys, ty \in Types : \E v \in ValuesOf(ty) :
           Within(MaxKVOps) /\ StoreEncodable(1, p, k, ty, v)
    \/ \E p \in Prefixes, k \in Keys, ty \in Types :
           Within(MaxKVOps) /\ RetrieveDecodable(1, p, k, ty)

SpecKV == Init /\ [][NextKV]_vars

\* Prefix scans on one store.
NextScan ==
    \/ Within(MaxScanOps) /\ FromPath(DataDb)
    \/ \E p \in Prefixes, k \in Keys :
           Within(MaxScanOps) /\ StoreEncodable(1, p, k, "u8", 0)
    \/ \E p \in Prefixes : Within(MaxScanOps) /\ PrefixIterator(1, p)

SpecScan == Init /\ [][NextScan]_vars

\* Clones of one handle working on one physical key.
NextShared ==
    \/ Within(MaxSharedOps) /\ FromPath(DataDb)
    \/ \E h \in HandleIds : Within(MaxSharedOps) /\ Clone(h)
    \/ \E h \in HandleIds, v \in ValuesOf("u8") :
           Within(MaxSharedOps) /\ StoreEncodable(h, <<1>>, <<1>>, "u8", v)
    \/ \E h \in HandleIds :
           Within(MaxSharedOps) /\ RetrieveDecodable(h, <<1>>, <<1>>, "u8")

SpecShared == Init /\ [][NextShared]_vars

\* ----------------------------------------------------------------- claims
IsStore(r) == r.op = "store_encodable"
IsRetrieve(r) == r.op = "retrieve_decodable"
IsScan(r) == r.op = "prefix_iterator"
IsOpen(r) == r.op = "from_path"

\* The byte string the engine is given as the key of a call.
PhysKey(r) == r.prefix \o r.key

SamePlace(a, b) == a.db = b.db /\ a.prefix = b.prefix /\ a.key = b.key

Found(v) == [tag |-> "Ok", value |-> Some(v)]
NotFound == [tag |-> "Ok", value |-> None]

\* C1: a retrieve_decodable of (prefix, key) made right after a successful
\* store_encodable of a value v of the same type under the same (prefix, key)
\* of the same store returns the value v.
C1_RoundTrip ==
    \A i \in 1..(Len(hist) - 1) :
        (/\ IsStore(hist[i]) /\ hist[i].result.tag = "Ok"
         /\ IsRetrieve(hist[i + 1])
         /\ SamePlace(hist[i], hist[i + 1]) /\ hist[i].ty = hist[i + 1].ty)
        => hist[i + 1].result = Found(hist[i].value)

\* A two-byte value stored over an older value and read back at once.
C1_Witness ==
    \E i \in 2..(Len(hist) - 1) :
        /\ IsStore(hist[i - 1]) /\ IsStore(hist[i]) /\ IsRetrieve(hist[i + 1])
        /\ SamePlace(hist[i - 1], hist[i]) /\ SamePlace(hist[i], hist[i + 1])
        /\ hist[i].ty = "u16" /\ hist[i + 1].ty = "u16" /\ hist[i].value = 258
        /\ hist[i - 1].value # 258
        /\ hist[i + 1].result = Found(258)

\* No store to the physical key of hist[t] strictly between i and t, except j.
NoOtherStore(i, j, t) ==
    \A n \in (i + 1)..(t - 1) :
        (n # j /\ IsStore(hist[n]) /\ hist[n].db = hist[t].db)
        => PhysKey(hist[n]) # PhysKey(hist[t])

\* C2: after a store of v1 and then a store of v2 under the same (prefix, key),
\* with no other store to that physical key in between or afterwards, a
\* retrieve of (prefix, key) returns v2, and the second store returned Ok.
C2_Overwrite ==
    \A i, j, t \in 1..Len(hist) :
        (/\ i < j /\ j < t
         /\ IsStore(hist[i]) /\ IsStore(hist[j]) /\ IsRetrieve(hist[t])
         /\ SamePlace(hist[i], hist[j]) /\ SamePlace(hist[j], hist[t])
         /\ hist[j].ty = hist[t].ty
         /\ NoOtherStore(i, j, t))
        => /\ hist[j].result = [tag |-> "Ok"]
           /\ hist[t].result = Found(hist[j].value)
           /\ (hist[i].ty = hist[j].ty /\ hist[i].value # hist[j].value)
                  => hist[t].result # Found(hist[i].value)

C2_Witness ==
    \E i, j, t \in 1..Len(hist) :
        /\ i < j /\ j < t
        /\ IsStore(hist[i]) /\ IsStore(hist[j]) /\ IsRetrieve(hist[t])
        /\ SamePlace(hist[i], hist[j]) /\ SamePlace(hist[j], hist[t])
        /\ hist[i].ty = hist[j].ty /\ hist[j].ty = hist[t].ty
        /\ hist[i].value # hist[j].value
        /\ hist[t].result = Found(hist[j].value)

\* C3, as claimed: a retrieve of a (prefix, key) pair under which no store was
\* ever issued on that store returns not-found.
C3_AbsenceByPair ==
    \A t \in 1..Len(hist) :
        (/\ IsRetrieve(hist[t])
         /\ \A i \in 1..(t - 1) : IsStore(hist[i]) => ~SamePlace(hist[i], hist[t]))
        => hist[t].result = NotFound

\* C3, amended: a retrieve of a (prefix, key) pair returns not-found when no
\* store was ever issued on that store under a pair whose concatenation
\* prefix ++ key is the same byte string.
C3_AbsenceByPhysicalKey ==
    \A t \in 1..Len(hist) :
        (/\ IsRetrieve(hist[t])
         /\ \A i \in 1..(t - 1) :
                (IsStore(hist[i]) /\ hist[i].db = hist[t].db)
                => PhysKey(hist[i]) # PhysKey(hist[t]))
        => hist[t].result = NotFound /\ hist[t].raw = None

\* A never-written physical key read from a store that holds another key
\* ending in the same caller key.
C3_Witness ==
    \E i, t \in 1..Len(hist) :
        /\ i < t /\ IsStore(hist[i]) /\ IsRetrieve(hist[t])
        /\ hist[i].db = hist[t].db /\ hist[i].key = hist[t].key
        /\ hist[i].prefix # hist[t].prefix
        /\ \A n \in 1..(t - 1) : IsStore(hist[n]) => PhysKey(hist[n]) # PhysKey(hist[t])
        /\ hist[t].result = NotFound

Incomparable(p1, p2) == p1 # p2 /\ ~IsPrefix(p1, p2) /\ ~IsPrefix(p2, p1)

\* C4: a store under (p1, k) leaves what a retrieve under (p2, k) finds, its
\* presence and its bytes, unchanged for every prefix p2 such that neither
\* of p1 and p2 is a byte-prefix of the other.
C4_NamespaceIsolation ==
    [][(Len(hist') = Len(hist) + 1 /\ IsStore(Last(hist')))
       => \A p2 \in Prefixes : \A e \in DOMAIN rocks :
              Incomparable(Last(hist').prefix, p2)
              => prefix_retrieve(rocks'[e].data, p2, Last(hist').key)
                 = prefix_retrieve(rocks[e].data, p2, Last(hist').key)]_vars

\* A value under (p2, k) read back after a later store under (p1, k).
C4_Witness ==
    \E i, j, t \in 1..Len(hist) :
        /\ i < j /\ j < t
        /\ IsStore(hist[i]) /\ IsStore(hist[j]) /\ IsRetrieve(hist[t])
        /\ SamePlace(hist[i], hist[t]) /\ hist[i].ty = hist[t].ty
        /\ hist[j].db = hist[i].db /\ hist[j].key = hist[i].key
        /\ Incomparable(hist[j].prefix, hist[i].prefix)
        /\ to_vec(hist[j].ty, hist[j].value) # to_vec(hist[i].ty, hist[i].value)
        /\ hist[t].result = Found(hist[i].value)

\* C5: prefix_iterator yields its entries in ascending bytewise order of the
\* full physical key, whatever the order of the stores was.
C5_ScanOrdering ==
    \A t \in 1..Len(hist) :
        IsScan(hist[t])
        => \A m, n \in 1..Len(hist[t].items) :
               m < n => LexLess(hist[t].items[m][1], hist[t].items[n][1])

\* Three keys under one prefix, stored in descending order, then scanned.
C5_Witness ==
    \E i, j, k, t \in 1..Len(hist) :
        /\ i < j /\ j < k /\ k < t
        /\ IsStore(hist[i]) /\ IsStore(hist[j]) /\ IsStore(hist[k]) /\ IsScan(hist[t])
        /\ LexLess(PhysKey(hist[j]), PhysKey(hist[i]))
        /\ LexLess(PhysKey(hist[k]), PhysKey(hist[j]))
        /\ \A n \in {i, j, k} : IsPrefix(hist[t].prefix, PhysKey(hist[n]))
        /\ Len(hist[t].items) = 3
        /\ hist[t].items[1][1] = PhysKey(hist[k])
        /\ hist[t].items[3][1] = PhysKey(hist[i])

\* C6: prefix_iterator(prefix) yields exactly the stored entries whose
\* physical key starts with prefix.
C6_ScanMembership ==
    \A t \in 1..Len(hist) :
        IsScan(hist[t])
        => /\ \A n \in 1..Len(hist[t].items) :
                  IsPrefix(hist[t].prefix, hist[t].items[n][1])
           /\ \A i \in 1..(t - 1) :
                  (/\ IsStore(hist[i]) /\ hist[i].db = hist[t].db
                   /\ IsPrefix(hist[t].prefix, PhysKey(hist[i])))
                  => \E n \in 1..Len(hist[t].items) :
                         hist[t].items[n][1] = PhysKey(hist[i])

\* The part of C6 that the scan does honour: every stored entry whose physical
\* key starts with prefix is yielded, before any entry that does not.
ScanYieldsPrefixFirst ==
    \A t \in 1..Len(hist) :
        IsScan(hist[t])
        => /\ \A i \in 1..(t - 1) :
                  (/\ IsStore(hist[i]) /\ hist[i].db = hist[t].db
                   /\ IsPrefix(hist[t].prefix, PhysKey(hist[i])))
                  => \E n \in 1..Len(hist[t].items) :
                         hist[t].items[n][1] = PhysKey(hist[i])
           /\ \A m, n \in 1..Len(hist[t].items) :
                  (m < n /\ IsPrefix(hist[t].prefix, hist[t].items[n][1]))
                  => IsPrefix(hist[t].prefix, hist[t].items[m][1])

\* The stores to the physical key of hist[t], on its store, made before it.
StoresBefore(t) ==
    {i \in 1..(t - 1) : /\ IsStore(hist[i]) /\ hist[i].db = hist[t].db
                        /\ PhysKey(hist[i]) = PhysKey(hist[t])}

MaxOf(S) == CHOOSE x \in S : \A y \in S : y <= x

\* What the engine holds under the physical key of hist[t] if the last store
\* applied to it is the last writer.
LastWritten(t) ==
    IF StoresBefore(t) = {} THEN None
    ELSE Some(to_vec(hist[MaxOf(StoresBefore(t))].ty, hist[MaxOf(StoresBefore(t))].value))

\* Every retrieve finds the bytes of the last store applied to its physical key.
ReadsLastWritten ==
    \A t \in 1..Len(hist) : IsRetrieve(hist[t]) => hist[t].raw = LastWritten(t)

\* C9: all clones of a handle work on the same engine state: whichever
\* clones issued the stores to a physical key, a retrieve through any clone
\* finds the value of the store the engine applied last.
C9_SharedHandle ==
    /\ ReadsLastWritten
    /\ \A g, h \in DOMAIN arc : PathOf(g) = PathOf(h) => DataOf(g) = DataOf(h)

\* Two clones store different values to one key, then each of them reads.
C9_Witness ==
    \E i, j, t, u \in 1..Len(hist) :
        /\ i < j /\ j < t /\ t < u
        /\ IsStore(hist[i]) /\ IsStore(hist[j])
        /\ IsRetrieve(hist[t]) /\ IsRetrieve(hist[u])
        /\ hist[i].handle # hist[j].handle /\ hist[i].value # hist[j].value
        /\ hist[t].handle = hist[i].handle /\ hist[u].handle = hist[j].handle
        /\ hist[t].result = Found(hist[j].value)
        /\ hist[u].result = Found(hist[j].value)

\* C10: a retrieve_decodable that finds bytes the decoder rejects returns the
\* decode failure (HyperlaneError); one that finds no bytes returns not-found
\* without calling the decoder; either way the call changes nothing.
C10_DecodeClassification ==
    [][(Len(hist') = Len(hist) + 1 /\ IsRetrieve(Last(hist')))
       => /\ (Last(hist').raw = None)
                 => (Last(hist').result = NotFound /\ Last(hist').ndecode = 0)
          /\ (Last(hist').raw # None
                /\ read_from(Last(hist').ty, Last(hist').raw[1]).tag = "Err")
                 => (/\ Last(hist').result = [tag |-> "HyperlaneError"]
                     /\ Last(hist').ndecode = 1)
          /\ UNCHANGED <<dirs, disk, rocks, arc, events>>]_vars

\* A rejected read of a stored one-byte value, and a read of an absent key.
C10_Witness ==
    \E i, t, u \in 1..Len(hist) :
        /\ i < t /\ i < u
        /\ IsStore(hist[i]) /\ IsRetrieve(hist[t]) /\ IsRetrieve(hist[u])
        /\ SamePlace(hist[i], hist[t])
        /\ hist[t].raw # None /\ hist[t].result = [tag |-> "HyperlaneError"]
        /\ hist[u].raw = None /\ hist[u].result = NotFound

\* A path that names a final component, the directory above it, and the
\* directory it names.
Named(p) == p # <<>> /\ Last(p) \notin {"/", ".", ".."}
ParentDir(p) == Absolute(SubSeq(p, 1, Len(p) - 1))
TargetDir(p) == Absolute(p)

\* C8: from_path on a path whose parent directory does not exist returns
\* InvalidDbPath with the supplied path, and nothing else happens: no event,
\* no engine, no directory, no store.
C8_PathFailure ==
    [][(/\ Len(hist') = Len(hist) + 1 /\ IsOpen(Last(hist'))
        /\ Named(Last(hist').db_path)
        /\ ParentDir(Last(hist').db_path) \notin dirs)
       => /\ Last(hist').result.tag = "InvalidDbPath"
          /\ Last(hist').result.path = to_string_lossy(Last(hist').db_path)
          /\ (BadName \notin {Last(hist').db_path[n] : n \in DOMAIN Last(hist').db_path})
                 => Last(hist').result.path = Last(hist').db_path
          /\ UNCHANGED <<dirs, disk, rocks, arc, events>>]_vars

\* Such a failure after a store was opened, with one event on record.
C8_Witness ==
    \E i, t \in 1..Len(hist) :
        /\ i < t /\ IsOpen(hist[i]) /\ hist[i].result.tag = "Ok"
        /\ IsOpen(hist[t]) /\ hist[t].db_path = <<"/", "nodir", "db">>
        /\ hist[t].result.tag = "InvalidDbPath"
        /\ Len(events) = 1

\* The successful opens of directory c before call t.
OpensBefore(c, t) ==
    {i \in 1..(t - 1) : /\ IsOpen(hist[i]) /\ hist[i].result.tag = "Ok"
                        /\ hist[i].result.canonicalized = c}

\* The handle opened by call i was dropped before call t.
DroppedBefore(i, t) ==
    \E n \in (i + 1)..(t - 1) :
        hist[n].op = "drop" /\ hist[n].handle = hist[i].result.handle

\* The paths a part of C7 is stated for.
OpenCreatesMissingDirFor(P) ==
    \A t \in 1..Len(hist) :
        (/\ IsOpen(hist[t]) /\ hist[t].db_path \in P /\ Named(hist[t].db_path)
         /\ ParentDir(hist[t].db_path) \in InitDirs
         /\ TargetDir(hist[t].db_path) \notin InitDirs
         /\ OpensBefore(TargetDir(hist[t].db_path), t) = {})
        => /\ hist[t].result.tag = "Ok"
           /\ TargetDir(hist[t].db_path) \in dirs

ReopenSucceedsFor(P) ==
    \A t \in 1..Len(hist) :
        (/\ IsOpen(hist[t]) /\ hist[t].db_path \in P /\ Named(hist[t].db_path)
         /\ OpensBefore(TargetDir(hist[t].db_path), t) # {}
         /\ \A i \in OpensBefore(TargetDir(hist[t].db_path), t) : DroppedBefore(i, t))
        => hist[t].result.tag = "Ok"

CreatingObservedOnce ==
    \A t \in 1..Len(hist) :
        (/\ IsOpen(hist[t]) /\ hist[t].result.tag = "Ok"
         /\ hist[t].result.canonicalized \notin InitDirs)
        => Cardinality({n \in DOMAIN events :
               events[n] = [msg |-> "Creating db",
                            path |-> to_string_lossy(hist[t].result.canonicalized)]}) = 1

\* C7: opening a path that holds a store whose handles were all dropped
\* succeeds and every value stored before is found again with the same bytes;
\* opening a path whose final directory does not exist, under an existing
\* parent, succeeds and creates it; "Creating db" is observed exactly once.
C7_OpenIdempotence ==
    /\ OpenCreatesMissingDirFor(DbPaths)
    /\ ReopenSucceedsFor(DbPaths)
    /\ ReadsLastWritten
    /\ CreatingObservedOnce

\* The same for the paths that spell out a directory in front of the name.
WithDirectory == {p \in DbPaths : Len(p) >= 2}

OpenIdempotenceWithDirectory ==
    /\ OpenCreatesMissingDirFor(WithDirectory)
    /\ ReopenSucceedsFor(WithDirectory)
    /\ ReadsLastWritten
    /\ CreatingObservedOnce

\* A value stored, the handle dropped, the store reopened and the value read.
ReopenedAndRead ==
    \E i, j, n, t, u \in 1..Len(hist) :
        /\ i < j /\ j < n /\ n < t /\ t < u
        /\ IsOpen(hist[i]) /\ hist[i].result.tag = "Ok"
        /\ IsStore(hist[j]) /\ hist[j].db = hist[i].result.canonicalized
        /\ hist[n].op = "drop" /\ hist[n].handle = hist[i].result.handle
        /\ IsOpen(hist[t]) /\ hist[t].result.tag = "Ok"
        /\ hist[t].result.canonicalized = hist[i].result.canonicalized
        /\ IsRetrieve(hist[u]) /\ hist[u].db = hist[j].db
        /\ hist[u].result = Found(hist[j].value)

====
